---- MODULE Spec2Model ----
(***************************************************************************)
(* Model of packages/expo-camera2/src/ExpoCamera2View.tsx: the camera view *)
(* component, its eight commands gated by the ensureAvailable decorator,   *)
(* the cameraNodeHandle field written by setNativeReference, and the       *)
(* default properties render hands to the native view.                     *)
(*                                                                         *)
(* JavaScript values are tagged tuples, so that values of different types  *)
(* can be compared: <<"undefined">>, <<"null">>, <<"number", n>>,          *)
(* <<"string", s>>, <<"object", s>>, <<"function", s>>,                    *)
(* <<"promise", state, value>> and errors <<type, ...>>.                   *)
(***************************************************************************)
EXTENDS Integers, Sequences, FiniteSets

VARIABLES registry, cameraNodeHandle, supplied, last, props, nativeProps, rendered

vars == <<registry, cameraNodeHandle, supplied, last, props, nativeProps, rendered>>

(* ------------------------------ bounds -------------------------------- *)

\* longest argument list a caller passes to a command
MaxArgs == 2
\* number of distinct native view instances the host can supply
MaxInst == 2

(* --------------------------- JavaScript values ------------------------ *)

Undefined == <<"undefined">>
Null == <<"null">>
Num(n) == <<"number", n>>
Str(s) == <<"string", s>>
Obj(s) == <<"object", s>>
Fn(s) == <<"function", s>>

\* the empty object literal {} of the default parameters
EmptyObject == Obj("{}")

\* JavaScript truthiness of the values the model uses
Truthy(v) == v # Undefined /\ v # Null /\ v # Num(0)

Promise(state, v) == <<"promise", state, v>>

\* completion of a call: a returned value or a thrown error
Return(v) == <<"return", v>>
Throw(e) == <<"throw", e>>

TypeError(msg) == <<"TypeError", msg>>

\* new UnavailabilityError(moduleName, propertyName)
UnavailabilityError(moduleName, propertyName) ==
  <<"UnavailabilityError", moduleName, propertyName>>

(* ------------------------------ commands ------------------------------ *)

\* the methods of ExpoCamera2View decorated with @ensureAvailable
Commands ==
  { "pausePreviewAsync", "resumePreviewAsync", "takePictureAsync", "recordAsync",
    "stopRecordingAsync", "getAvailableRatiosAsync",
    "getAvailablePictureSizesAsync", "focusOnPoint" }

\* the argument at position i of an argument list, undefined when omitted
Arg(args, i) == IF i <= Len(args) THEN args[i] ELSE Undefined

\* a parameter declared with a default value: `options = {}`
WithDefault(v, d) == IF v = Undefined THEN d ELSE v

\* the declared parameters of each command, bound to the caller's arguments
Parameters(cmd, args) ==
  CASE cmd = "pausePreviewAsync" -> <<>>
    [] cmd = "resumePreviewAsync" -> <<>>
    [] cmd = "takePictureAsync" -> <<WithDefault(Arg(args, 1), EmptyObject)>>
    [] cmd = "recordAsync" -> <<WithDefault(Arg(args, 1), EmptyObject)>>
    [] cmd = "stopRecordingAsync" -> <<>>
    [] cmd = "getAvailableRatiosAsync" -> <<>>
    [] cmd = "getAvailablePictureSizesAsync" -> <<Arg(args, 1)>>
    [] cmd = "focusOnPoint" -> <<Arg(args, 1)>>

\* a slip in one body: the ratios command calling the picture-sizes entry
BodyEntryCrossed(cmd) ==
  IF cmd = "getAvailableRatiosAsync" THEN "getAvailablePictureSizesAsync" ELSE cmd

\* the entry of ExpoCamera2ViewManager that each command's body calls
BodyEntry(cmd) ==
  CASE cmd = "pausePreviewAsync" -> "pausePreviewAsync"
    [] cmd = "resumePreviewAsync" -> "resumePreviewAsync"
    [] cmd = "takePictureAsync" -> "takePictureAsync"
    [] cmd = "recordAsync" -> "recordAsync"
    [] cmd = "stopRecordingAsync" -> "stopRecordingAsync"
    [] cmd = "getAvailableRatiosAsync" -> "getAvailableRatiosAsync"
    [] cmd = "getAvailablePictureSizesAsync" -> "getAvailablePictureSizesAsync"
    [] cmd = "focusOnPoint" -> "focusOnPoint"

\* a slip: the node handle passed first instead of last
CallArgumentsHandleFirst(cmd, args, handle) == <<handle>> \o Parameters(cmd, args)

\* the argument list each body passes to the registry entry
CallArguments(cmd, args, handle) == Parameters(cmd, args) \o <<handle>>

(* ----------------------- the native registry -------------------------- *)

\* what a native function does when called: the promise it returns settles
\* with a value or an error, or the call itself throws
Behaviours ==
  { <<"resolve", Obj("{uri: file://x.jpg}")>>,
    <<"reject", <<"NativeError", "E_CAMERA">>>>,
    <<"throw", <<"NativeError", "E_CAMERA">>>> }

\* completion of the native function under a behaviour
NativeResult(beh) ==
  CASE beh[1] = "resolve" -> Return(Promise("fulfilled", beh[2]))
    [] beh[1] = "reject" -> Return(Promise("rejected", beh[2]))
    [] beh[1] = "throw" -> Throw(beh[2])

CheckEvent(name) == <<"check", name>>
CallEvent(name, callArgs) == <<"call", name, callArgs>>

\* ExpoCamera2ViewManager[name](...callArgs): calling a missing entry is a
\* TypeError and reaches no native function
RegistryCall(reg, name, callArgs, beh) ==
  IF name \in reg
    THEN [trace |-> <<CallEvent(name, callArgs)>>, outcome |-> NativeResult(beh)]
    ELSE [trace |-> <<>>, outcome |-> Throw(TypeError("is not a function"))]

\* a slip: the body calling the registry entry twice
MethodRetrying(cmd, handle, args, reg, beh) ==
  LET r == RegistryCall(reg, BodyEntry(cmd), CallArguments(cmd, args, handle), beh)
  IN [trace |-> r.trace \o r.trace, outcome |-> r.outcome]

\* the body of a command, run with `this` the component
Method(cmd, handle, args, reg, beh) ==
  RegistryCall(reg, BodyEntry(cmd), CallArguments(cmd, args, handle), beh)

\* a slip: no gate at all
EnsureAvailableUnchecked(propertyName, handle, args, reg, beh) ==
  LET r == Method(propertyName, handle, args, reg, beh)
  IN [trace |-> <<CheckEvent(propertyName)>> \o r.trace, outcome |-> r.outcome]

\* a slip: the wrapper declared async, so the gate's error rejects a promise
EnsureAvailableAsync(propertyName, handle, args, reg, beh) ==
  IF propertyName \notin reg
    THEN [trace |-> <<CheckEvent(propertyName)>>,
          outcome |-> Return(Promise("rejected",
                                     UnavailabilityError("Camera", propertyName)))]
    ELSE LET r == Method(propertyName, handle, args, reg, beh)
         IN [trace |-> <<CheckEvent(propertyName)>> \o r.trace, outcome |-> r.outcome]

\* a slip: the wrapper catching the body's exception and throwing its own
EnsureAvailableCatching(propertyName, handle, args, reg, beh) ==
  IF propertyName \notin reg
    THEN [trace |-> <<CheckEvent(propertyName)>>,
          outcome |-> Throw(UnavailabilityError("Camera", propertyName))]
    ELSE LET r == Method(propertyName, handle, args, reg, beh)
         IN [trace |-> <<CheckEvent(propertyName)>> \o r.trace,
             outcome |-> IF r.outcome[1] = "throw"
                           THEN Throw(UnavailabilityError("Camera", propertyName))
                           ELSE r.outcome]

\* the function ensureAvailable installs as descriptor.value
EnsureAvailable(propertyName, handle, args, reg, beh) ==
  IF propertyName \notin reg
    THEN [trace |-> <<CheckEvent(propertyName)>>,
          outcome |-> Throw(UnavailabilityError("Camera", propertyName))]
    ELSE LET r == Method(propertyName, handle, args, reg, beh)
         IN [trace |-> <<CheckEvent(propertyName)>> \o r.trace, outcome |-> r.outcome]

(* ------------------------- the node handle ---------------------------- *)

\* the node handle of native view instance i
Tag(i) == 10 + i

Instances == 1..MaxInst

\* a mounted instance as the host supplies it: its identity and what
\* findNodeHandle resolves it to (its tag, null or 0)
Instance(i, node) == <<"instance", i, node>>

Refs ==
  {Null} \cup UNION { {Instance(i, Num(Tag(i))), Instance(i, Null), Instance(i, Num(0))} :
                      i \in Instances }

findNodeHandle(ref) == ref[3]

FindEvent(ref) == <<"findNodeHandle", ref>>

\* the component, as the receiver of a method call
Component == Obj("ExpoCamera2View")

\* `this.cameraNodeHandle = v` with `this` undefined is a TypeError
\* setNativeReference(ref) run with receiver thisArg
setNativeReference(thisArg, handle, ref) ==
  IF ref # Null
    THEN LET h == findNodeHandle(ref)
         IN IF Truthy(h)
              THEN IF thisArg = Undefined
                     THEN [handle |-> handle, trace |-> <<FindEvent(ref)>>,
                           outcome |-> Throw(TypeError("cannot set property of undefined"))]
                     ELSE [handle |-> h, trace |-> <<FindEvent(ref)>>,
                           outcome |-> Return(Undefined)]
              ELSE [handle |-> handle, trace |-> <<FindEvent(ref)>>,
                    outcome |-> Return(Undefined)]
    ELSE IF thisArg = Undefined
           THEN [handle |-> handle, trace |-> <<>>,
                 outcome |-> Throw(TypeError("cannot set property of undefined"))]
           ELSE [handle |-> Undefined, trace |-> <<>>, outcome |-> Return(Undefined)]

\* the receiver of the function render passes as the ref prop: the method
\* is passed unbound, and the host calls it as a plain function
RefProp == Undefined

(* --------------------------- properties ------------------------------- *)

ConfigProps == {"autofocus", "facing", "flashMode", "focusDepth", "whiteBalance", "zoom"}
CallbackProps == {"onCameraReady", "onMountError"}
PropNames == ConfigProps \cup CallbackProps

\* a slip: the camera facing front by default
defaultPropsFront ==
  [p \in PropNames |->
     CASE p = "autofocus" -> Str("Autofocus.Off")
       [] p = "facing" -> Str("Facing.Front")
       [] p = "flashMode" -> Str("FlashMode.Off")
       [] p = "focusDepth" -> Num(0)
       [] p = "whiteBalance" -> Str("WhiteBalance.Auto")
       [] p = "zoom" -> Num(0)
       [] p = "onCameraReady" -> Fn("noop")
       [] p = "onMountError" -> Fn("noop")]

\* static defaultProps
defaultProps ==
  [p \in PropNames |->
     CASE p = "autofocus" -> Str("Autofocus.Off")
       [] p = "facing" -> Str("Facing.Back")
       [] p = "flashMode" -> Str("FlashMode.Off")
       [] p = "focusDepth" -> Num(0)
       [] p = "whiteBalance" -> Str("WhiteBalance.Auto")
       [] p = "zoom" -> Num(0)
       [] p = "onCameraReady" -> Fn("noop")
       [] p = "onMountError" -> Fn("noop")]

\* the values a caller can give a property: unset, or one of two values
PropChoices(p) ==
  CASE p = "autofocus" -> {Undefined, Str("Autofocus.Off"), Str("Autofocus.On")}
    [] p = "facing" -> {Undefined, Str("Facing.Back"), Str("Facing.Front")}
    [] p = "flashMode" -> {Undefined, Str("FlashMode.Off"), Str("FlashMode.Torch")}
    [] p = "focusDepth" -> {Undefined, Num(0), Num(1)}
    [] p = "whiteBalance" -> {Undefined, Str("WhiteBalance.Auto"), Str("WhiteBalance.Sunny")}
    [] p = "zoom" -> {Undefined, Num(0), Num(1)}
    [] p = "onCameraReady" -> {Undefined, Fn("caller")}
    [] p = "onMountError" -> {Undefined, Fn("caller")}

\* this.props: the caller's props with each undefined one replaced by its
\* default, which render spreads onto the native view
thisProps(callerProps) ==
  [p \in PropNames |-> IF callerProps[p] = Undefined THEN defaultProps[p] ELSE callerProps[p]]

(* ------------------------------ state --------------------------------- *)

\* argument lists of length at most n over the argument values
ArgValues == {Undefined, Obj("{quality: 1}")}

RECURSIVE ArgLists(_)
ArgLists(n) ==
  IF n = 0 THEN {<<>>}
  ELSE ArgLists(n - 1) \cup { Append(a, v) : a \in { b \in ArgLists(n - 1) : Len(b) = n - 1 }, v \in ArgValues }

\* the registries of the platform builds considered: every capability, none,
\* and all but one
Registries == {Commands, {}} \cup { Commands \ {c} : c \in Commands }

NoOp ==
  [op |-> "none", cmd |-> "none", this |-> Undefined, args |-> <<>>, ref |-> Null,
   trace |-> <<>>, outcome |-> Return(Undefined), beh |-> <<"none">>]

Init ==
  /\ registry \in Registries
  /\ cameraNodeHandle = Undefined
  /\ supplied = 0
  /\ last = NoOp
  /\ props = [p \in PropNames |-> Undefined]
  /\ nativeProps = [p \in PropNames |-> Undefined]
  /\ rendered = FALSE

\* view.<cmd>(...args): a gated command called on the component
Invoke(cmd, args, beh) ==
  LET r == EnsureAvailable(cmd, cameraNodeHandle, args, registry, beh)
  IN /\ last' = [op |-> "invoke", cmd |-> cmd, this |-> Component, args |-> args,
                 ref |-> Null, trace |-> r.trace, outcome |-> r.outcome, beh |-> beh]
     /\ UNCHANGED <<registry, cameraNodeHandle, supplied, props, nativeProps, rendered>>

\* a call of setNativeReference with receiver thisArg; supplied keeps the
\* instance the host supplied last, 0 after a null ref
Reference(thisArg, ref) ==
  LET r == setNativeReference(thisArg, cameraNodeHandle, ref)
  IN /\ cameraNodeHandle' = r.handle
     /\ supplied' = (IF ref = Null THEN 0 ELSE ref[2])
     /\ last' = [op |-> "ref", cmd |-> "setNativeReference", this |-> thisArg,
                 args |-> <<>>, ref |-> ref, trace |-> r.trace, outcome |-> r.outcome, beh |-> <<"none">>]
     /\ UNCHANGED <<registry, props, nativeProps, rendered>>

\* the host calls the ref prop of the native view on mount and unmount
HostRef(ref) == Reference(RefProp, ref)

\* view.setNativeReference(ref): the method called on the component
CallSetNativeReference(ref) == Reference(Component, ref)

Next ==
  \/ \E cmd \in Commands, args \in ArgLists(MaxArgs), beh \in Behaviours : Invoke(cmd, args, beh)
  \/ \E ref \in Refs : HostRef(ref)
  \/ \E ref \in Refs : CallSetNativeReference(ref)

Spec == Init /\ [][Next]_vars

(* ----------------- the properties handed to the view ------------------ *)

InitProps ==
  /\ registry = Commands
  /\ cameraNodeHandle = Undefined
  /\ supplied = 0
  /\ last = NoOp
  /\ props \in { f \in [PropNames -> {Undefined, Fn("caller")}] :
                    \A p \in ConfigProps : f[p] = Undefined }
  /\ nativeProps = [p \in PropNames |-> Undefined]
  /\ rendered = FALSE

\* render(): the native view receives {...this.props}
Render ==
  /\ nativeProps' = thisProps(props)
  /\ rendered' = TRUE
  /\ UNCHANGED <<registry, cameraNodeHandle, supplied, last, props>>

\* the parent re-renders the component with property p set to v
UpdateProp(p, v) ==
  /\ rendered
  /\ props' = [props EXCEPT ![p] = v]
  /\ nativeProps' = thisProps(props')
  /\ UNCHANGED <<registry, cameraNodeHandle, supplied, last, rendered>>

NextProps ==
  \/ Render
  \/ \E p \in PropNames : \E v \in PropChoices(p) : UpdateProp(p, v)

SpecProps == InitProps /\ [][NextProps]_vars

(* ------------------------- the claims --------------------------------- *)

\* the registry calls made by the last operation
Calls == { k \in 1..Len(last.trace) : last.trace[k][1] = "call" }

\* the last argument of the registry call at position k of the trace
HandleArg(k) == last.trace[k][3][Len(last.trace[k][3])]

Invoked == last.op = "invoke"

\* C1: a gated command whose capability is missing from the registry fails
\* with an UnavailabilityError made of 'Camera' and the command's name, and
\* calls no registry function.
C1_UnavailableFails ==
  (Invoked /\ last.cmd \notin registry) =>
     /\ last.outcome[2] = <<"UnavailabilityError", "Camera", last.cmd>>
     /\ Calls = {}

W_C1 ==
  /\ Invoked
  /\ last.cmd = "getAvailableRatiosAsync"
  /\ registry = Commands \ {"getAvailableRatiosAsync"}

\* the parameters the source declares for each command, bound to an
\* argument list: options default to {}, a missing argument is undefined,
\* surplus arguments are dropped
Declared(cmd, args) ==
  IF cmd \in {"takePictureAsync", "recordAsync"}
    THEN <<IF Len(args) = 0 \/ args[1] = Undefined THEN Obj("{}") ELSE args[1]>>
    ELSE IF cmd \in {"getAvailablePictureSizesAsync", "focusOnPoint"}
           THEN <<IF Len(args) = 0 THEN Undefined ELSE args[1]>>
           ELSE <<>>

\* C2 as stated: a command whose capability is present calls the registry
\* entry with exactly the caller's arguments followed by cameraNodeHandle,
\* and returns the registry call's result unchanged.
C2_CallerArgumentsForwarded ==
  (Invoked /\ last.cmd \in registry) =>
     /\ last.trace = <<CheckEvent(last.cmd),
                       <<"call", last.cmd, last.args \o <<cameraNodeHandle>>>>>>
     /\ last.outcome = NativeResult(last.beh)

\* C2 amended: a command whose capability is present calls the registry
\* entry once, with the command's declared parameters bound to the caller's
\* arguments (omitted or undefined options of takePictureAsync and
\* recordAsync become {}, an omitted ratio or point is undefined, surplus
\* arguments are dropped) followed by cameraNodeHandle as the last argument,
\* and returns the registry call's result unchanged.
C2_DeclaredParametersForwarded ==
  (Invoked /\ last.cmd \in registry) =>
     /\ last.trace = <<CheckEvent(last.cmd),
                       <<"call", last.cmd,
                         Declared(last.cmd, last.args) \o <<cameraNodeHandle>>>>>>
     /\ last.outcome = NativeResult(last.beh)

W_C2 ==
  /\ Invoked
  /\ last.cmd = "takePictureAsync"
  /\ last.cmd \in registry
  /\ last.args = <<>>
  /\ cameraNodeHandle = Num(Tag(1))
  /\ last.outcome = Return(Promise("fulfilled", Obj("{uri: file://x.jpg}")))

\* C3: no gated command reaches a registry function while cameraNodeHandle
\* is absent; such an invocation ends in an error of the proxy.
C3_AbsentHandleRejected ==
  (Invoked /\ cameraNodeHandle = Undefined) =>
     /\ Calls = {}
     /\ \/ last.outcome[1] = "throw"
        \/ last.outcome[2][1] = "promise" /\ last.outcome[2][2] = "rejected"

\* C4: after the ref callback is invoked with null the handle is absent, and
\* every non-absent handle passed to a registry function is the handle of
\* the instance most recently supplied to the ref callback.
C4_NoStaleHandle ==
  /\ (last.op = "ref" /\ last.ref = Null) => cameraNodeHandle = Undefined
  /\ Invoked =>
       \A k \in Calls :
          HandleArg(k) # Undefined =>
             supplied # 0 /\ HandleArg(k) = Num(Tag(supplied))

\* C5: the capability check comes first in the call, before the body and
\* before any registry call; when the capability is missing the error is
\* thrown by the call itself, not returned as a rejected promise, and the
\* call has started no native call.
C5_CheckIsSynchronous ==
  Invoked =>
     /\ last.trace[1] = <<"check", last.cmd>>
     /\ last.cmd \notin registry =>
          /\ last.outcome[1] = "throw"
          /\ last.outcome[2][1] = "UnavailabilityError"
          /\ Len(last.trace) = 1

W_C5 ==
  /\ Invoked
  /\ last.cmd = "takePictureAsync"
  /\ last.cmd \notin registry
  /\ last.outcome[1] = "throw"
  /\ cameraNodeHandle # Undefined

\* C6: when the registry function throws or returns a promise that rejects,
\* the caller gets that same exception or that same promise, and the
\* registry is called once.
C6_FailurePropagates ==
  (Invoked /\ last.cmd \in registry /\ last.beh[1] \in {"throw", "reject"}) =>
     /\ last.beh[1] = "throw" => last.outcome = <<"throw", last.beh[2]>>
     /\ last.beh[1] = "reject" =>
          last.outcome = <<"return", <<"promise", "rejected", last.beh[2]>>>>
     /\ Cardinality(Calls) = 1

W_C6 ==
  /\ Invoked
  /\ last.cmd = "takePictureAsync"
  /\ last.cmd \in registry
  /\ last.beh[1] = "throw"
  /\ last.outcome[1] = "throw"

\* C7: when the host invokes the ref prop with an instance whose node handle
\* resolves to h, the handle is resolved once and cameraNodeHandle becomes h.
C7_MountBindsHandle ==
  (last.op = "ref" /\ last.this = RefProp /\ last.ref # Null /\ Truthy(last.ref[3])) =>
     /\ cameraNodeHandle = last.ref[3]
     /\ Cardinality({ k \in 1..Len(last.trace) : last.trace[k][1] = "findNodeHandle" }) = 1

\* C8: a gated command leaves cameraNodeHandle (and the registry) unchanged
\* whatever its outcome, cameraNodeHandle changes only in a step of
\* setNativeReference, and an invocation that returns a result made exactly
\* one registry call.
C8_CommandsKeepHandle ==
  [][ /\ last'.op = "invoke" =>
           /\ cameraNodeHandle' = cameraNodeHandle
           /\ registry' = registry
           /\ supplied' = supplied
           /\ last'.outcome[1] = "return" =>
                Cardinality({ k \in 1..Len(last'.trace) : last'.trace[k][1] = "call" }) = 1
      /\ cameraNodeHandle' # cameraNodeHandle =>
           last'.op = "ref" /\ last'.cmd = "setNativeReference" ]_vars

W_C8 ==
  /\ Invoked
  /\ last.outcome[1] = "return"
  /\ cameraNodeHandle = Num(Tag(2))
  /\ last.cmd = "recordAsync"

\* the documented default of each configuration property
DocumentedDefault(p) ==
  CASE p = "autofocus" -> <<"string", "Autofocus.Off">>
    [] p = "facing" -> <<"string", "Facing.Back">>
    [] p = "flashMode" -> <<"string", "FlashMode.Off">>
    [] p = "focusDepth" -> <<"number", 0>>
    [] p = "whiteBalance" -> <<"string", "WhiteBalance.Auto">>
    [] p = "zoom" -> <<"number", 0>>

\* C9: the native view receives, for each configuration property, the
\* caller's value when the caller sets it and otherwise its default:
\* autofocus Off, facing Back, flashMode Off, focusDepth 0.0, whiteBalance
\* Auto, zoom 0.0.
C9_DefaultsApply ==
  rendered =>
     \A p \in ConfigProps :
        nativeProps[p] = IF props[p] = Undefined THEN DocumentedDefault(p) ELSE props[p]

W_C9 ==
  /\ rendered
  /\ props["facing"] = Undefined
  /\ props["autofocus"] = Undefined
  /\ props["zoom"] = Num(1)
  /\ nativeProps["zoom"] = Num(1)

\* C10: the capability the gate tests is the registry entry the body calls:
\* a command that passes its check calls an entry that is present, the one
\* named like the command, and no other.
C10_CheckedEntryIsCalled ==
  (Invoked /\ last.cmd \in registry) =>
     /\ last.trace[1] = <<"check", last.cmd>>
     /\ Calls # {}
     /\ \A k \in Calls : last.trace[k][2] = last.cmd /\ last.trace[k][2] \in registry
     /\ last.outcome # <<"throw", <<"TypeError", "is not a function">>>>

W_C10 ==
  /\ Invoked
  /\ last.cmd = "getAvailableRatiosAsync"
  /\ registry = Commands \ {"getAvailablePictureSizesAsync"}
  /\ Calls # {}

====
